---------------------------- MODULE Spec2Model ----------------------------
(***************************************************************************)
(* A model of the deal-alert pipeline of bot.py: the text normaliser, the  *)
(* price extractor, the eBay query generator, the resale aggregator (API   *)
(* first, Selenium scraping as the fallback) and the profit evaluation     *)
(* that on_message turns into the alert status.                            *)
(*                                                                         *)
(* Text is modelled character by character: a Python str is a sequence of  *)
(* one-character strings.  Characters outside ASCII are written by name:   *)
(* "pound", "euro", "endash", "emdash", "eacute".  Python's None is the    *)
(* value None below, which is no string of characters.                     *)
(*                                                                         *)
(* Money is counted in units of 1/10000 GBP, so that a price in pence      *)
(* times an exchange rate in hundredths, and the median of two prices in   *)
(* pence, are whole numbers.  Floating-point rounding is not modelled.     *)
(***************************************************************************)
EXTENDS Integers, Sequences, FiniteSets, TLC

(***************************************************************************)
(* Python values and str operations                                        *)
(***************************************************************************)

\* Python's None, where a str is expected.
None == <<"<None>">>

\* Python truthiness of an optional str: None and "" are falsy.
Truthy(s) == s # None /\ s # <<>>

Digits == <<"0","1","2","3","4","5","6","7","8","9">>

\* \d
IsDigit(c) == \E i \in 1..10 : Digits[i] = c

\* int(c) for a digit c
DigitValue(c) == (CHOOSE i \in 1..10 : Digits[i] = c) - 1

\* \s
IsSpace(c) == c \in {" ", "tab", "nl"}

\* str.lower() of the upper-case letters
LowerOf == [A |-> "a", B |-> "b", C |-> "c", D |-> "d", E |-> "e", F |-> "f",
            G |-> "g", H |-> "h", I |-> "i", J |-> "j", K |-> "k", L |-> "l",
            M |-> "m", N |-> "n", O |-> "o", P |-> "p", Q |-> "q", R |-> "r",
            S |-> "s", T |-> "t", U |-> "u", V |-> "v", W |-> "w", X |-> "x",
            Y |-> "y", Z |-> "z"]

\* str.lower() of one character
LowerChar(c) == IF c \in DOMAIN LowerOf THEN LowerOf[c] ELSE c

\* str.lower()
Lower(s) == [i \in 1..Len(s) |-> LowerChar(s[i])]

\* s[i:] (i counted from 1)
From(s, i) == SubSeq(s, i, Len(s))

\* s.startswith(p, i-1)
StartsAt(s, i, p) ==
    /\ i + Len(p) - 1 <= Len(s)
    /\ SubSeq(s, i, i + Len(p) - 1) = p

\* p in s
Contains(s, p) == \E i \in 1..(Len(s) + 1) : StartsAt(s, i, p)

\* s.replace(old, new): leftmost, non-overlapping; old is not empty
RECURSIVE ReplaceFrom(_, _, _, _)
ReplaceFrom(s, i, old, new) ==
    IF i > Len(s) THEN <<>>
    ELSE IF StartsAt(s, i, old)
         THEN new \o ReplaceFrom(s, i + Len(old), old, new)
         ELSE <<s[i]>> \o ReplaceFrom(s, i + 1, old, new)

Replace(s, old, new) == ReplaceFrom(s, 1, old, new)

\* re.sub(re.escape(word), '', s, flags=re.IGNORECASE): lower is s in lower
\* case, word is in lower case
RECURSIVE RemoveCIFrom(_, _, _, _)
RemoveCIFrom(s, lower, i, word) ==
    IF i > Len(s) THEN <<>>
    ELSE IF StartsAt(lower, i, word)
         THEN RemoveCIFrom(s, lower, i + Len(word), word)
         ELSE <<s[i]>> \o RemoveCIFrom(s, lower, i + 1, word)

RemoveCI(s, word) == RemoveCIFrom(s, Lower(s), 1, Lower(word))

\* The index after the longest run of characters from i on that satisfy
\* the class (a greedy \s*, \d* or \S*).
RECURSIVE SkipSpaces(_, _)
SkipSpaces(s, i) ==
    IF i <= Len(s) /\ IsSpace(s[i]) THEN SkipSpaces(s, i + 1) ELSE i

RECURSIVE SkipDigits(_, _)
SkipDigits(s, i) ==
    IF i <= Len(s) /\ IsDigit(s[i]) THEN SkipDigits(s, i + 1) ELSE i

RECURSIVE SkipNonSpaces(_, _)
SkipNonSpaces(s, i) ==
    IF i <= Len(s) /\ ~IsSpace(s[i]) THEN SkipNonSpaces(s, i + 1) ELSE i

\* s.strip()
RECURSIVE StripRight(_)
StripRight(s) ==
    IF s # <<>> /\ IsSpace(s[Len(s)])
    THEN StripRight(SubSeq(s, 1, Len(s) - 1))
    ELSE s

Strip(s) == StripRight(From(s, SkipSpaces(s, 1)))

\* s.split(): the maximal runs of non-whitespace characters
RECURSIVE SplitFrom(_, _)
SplitFrom(s, i) ==
    LET a == SkipSpaces(s, i)
        b == SkipNonSpaces(s, a)
    IN IF a > Len(s) THEN <<>>
       ELSE <<SubSeq(s, a, b - 1)>> \o SplitFrom(s, b)

Split(s) == SplitFrom(s, 1)

\* ' '.join(words)
RECURSIVE Join(_)
Join(words) ==
    IF words = <<>> THEN <<>>
    ELSE IF Len(words) = 1 THEN words[1]
    ELSE words[1] \o <<" ">> \o Join(Tail(words))

\* words[:n]
Take(words, n) == SubSeq(words, 1, IF n < Len(words) THEN n ELSE Len(words))

(***************************************************************************)
(* clean_product_name                                                      *)
(***************************************************************************)

CurrencySymbols == {"pound", "$", "euro"}

\* re.sub(r'[pound $ euro]\s*\d+\.?\d*', '', s)
RECURSIVE RemovePricesFrom(_, _)
RemovePricesFrom(s, i) ==
    IF i > Len(s) THEN <<>>
    ELSE LET d == SkipSpaces(s, i + 1)
             e == SkipDigits(s, d)
             f == IF e <= Len(s) /\ s[e] = "." THEN e + 1 ELSE e
             g == SkipDigits(s, f)
         IN IF s[i] \in CurrencySymbols /\ e > d
            THEN RemovePricesFrom(s, g)
            ELSE <<s[i]>> \o RemovePricesFrom(s, i + 1)

RemovePrices(s) == RemovePricesFrom(s, 1)

\* re.sub(r'https?://\S+', '', s)
RECURSIVE RemoveUrlsFrom(_, _)
RemoveUrlsFrom(s, i) ==
    IF i > Len(s) THEN <<>>
    ELSE LET h == IF StartsAt(s, i, <<"h","t","t","p","s",":","/","/">>)
                  THEN i + 8
                  ELSE IF StartsAt(s, i, <<"h","t","t","p",":","/","/">>)
                       THEN i + 7
                       ELSE 0
             e == SkipNonSpaces(s, h)
         IN IF h # 0 /\ e > h
            THEN RemoveUrlsFrom(s, e)
            ELSE <<s[i]>> \o RemoveUrlsFrom(s, i + 1)

RemoveUrls(s) == RemoveUrlsFrom(s, 1)

\* re.sub(r'\s+', ' ', s)
RECURSIVE CollapseSpacesFrom(_, _)
CollapseSpacesFrom(s, i) ==
    IF i > Len(s) THEN <<>>
    ELSE IF IsSpace(s[i])
         THEN <<" ">> \o CollapseSpacesFrom(s, SkipSpaces(s, i))
         ELSE <<s[i]>> \o CollapseSpacesFrom(s, i + 1)

CollapseSpaces(s) == CollapseSpacesFrom(s, 1)

\* remove_words = ['[TEST]', 'bundle'], removed in this order
RemoveWords(s) ==
    RemoveCI(RemoveCI(s, <<"[","T","E","S","T","]">>),
             <<"b","u","n","d","l","e">>)

\* The four str.replace calls on dashes, in the code's order.
ReplaceDashes(s) ==
    Replace(Replace(Replace(Replace(s, <<"endash">>, <<" ">>),
                            <<"emdash">>, <<" ">>),
                    <<" ", "-", " ">>, <<" ">>),
            <<"-">>, <<" ">>)

clean_product_name(name) ==
    IF ~Truthy(name) THEN name
    ELSE Strip(CollapseSpaces(ReplaceDashes(RemoveUrls(RemovePrices(
             RemoveWords(name))))))

(***************************************************************************)
(* Exclusion terms                                                         *)
(***************************************************************************)

single_item_keywords ==
    << <<"t","i","n">>,
       <<"m","i","n","i"," ","t","i","n">>,
       <<"b","o","o","s","t","e","r"," ","p","a","c","k">>,
       <<"s","i","n","g","l","e"," ","p","a","c","k">>,
       <<"b","l","i","s","t","e","r">>,
       <<"t","h","e","m","e"," ","d","e","c","k">>,
       <<"s","t","a","r","t","e","r"," ","d","e","c","k">>,
       <<"p","r","e","m","i","u","m"," ","c","o","l","l","e","c","t","i","o","n">> >>

multipack_keywords ==
    << <<"b","o","o","s","t","e","r"," ","b","o","x">>,
       <<"d","i","s","p","l","a","y">>,
       <<"c","a","s","e">>,
       <<"b","u","n","d","l","e">>,
       <<"l","o","t">>,
       <<"s","e","t"," ","o","f">> >>

\* any(keyword in lower_name for keyword in keywords)
AnyKeywordIn(keywords, lower_name) ==
    \E k \in 1..Len(keywords) : Contains(lower_name, keywords[k])

\* product_name is a str here: on None, product_name.lower() raises.
should_exclude_multipacks(product_name) ==
    LET lower_name == Lower(product_name)
    IN IF AnyKeywordIn(single_item_keywords, lower_name) THEN TRUE
       ELSE IF AnyKeywordIn(multipack_keywords, lower_name) THEN FALSE
       ELSE FALSE

ExclusionSuffix ==
    <<" ","-","\"","b","o","o","s","t","e","r"," ","b","o","x","\"",
      " ","-","d","i","s","p","l","a","y">>

\* A faulty get_exclusion_terms: the suffix whatever the product is.
AlwaysExclude(product_name) == ExclusionSuffix

get_exclusion_terms(product_name) ==
    IF should_exclude_multipacks(product_name) THEN ExclusionSuffix ELSE <<>>

(***************************************************************************)
(* The number pattern \d{1,3}(?:,?\d{3})*(?:\.\d{1,2})? of both formats    *)
(***************************************************************************)

\* \d{3} at i
ThreeDigitsAt(s, i) ==
    /\ i + 2 <= Len(s)
    /\ IsDigit(s[i]) /\ IsDigit(s[i + 1]) /\ IsDigit(s[i + 2])

\* Greedy (?:,?\d{3})* from i: the index after the last group.
RECURSIVE GroupsEnd(_, _)
GroupsEnd(s, i) ==
    IF i <= Len(s) /\ s[i] = "," /\ ThreeDigitsAt(s, i + 1)
    THEN GroupsEnd(s, i + 4)
    ELSE IF ThreeDigitsAt(s, i) THEN GroupsEnd(s, i + 3)
    ELSE i

\* Greedy (?:\.\d{1,2})? from i.
DecimalsEnd(s, i) ==
    IF i + 1 <= Len(s) /\ s[i] = "." /\ IsDigit(s[i + 1])
    THEN IF i + 2 <= Len(s) /\ IsDigit(s[i + 2]) THEN i + 3 ELSE i + 2
    ELSE i

\* The match of the number pattern at i when nothing has to follow it (the
\* pattern ends the regular expression): every quantifier takes all it can.
\* s[i] is a digit.
NumberEnd(s, i) ==
    LET d == SkipDigits(s, i)
        a == IF d > i + 3 THEN i + 3 ELSE d
    IN DecimalsEnd(s, GroupsEnd(s, a))

\* Every index at which \d{1,3}(?:,?\d{3})* from i can end, whatever the
\* regular expression engine backtracks to.
RECURSIVE GroupsEnds(_, _)
GroupsEnds(s, ends) ==
    LET more == {e + 3 : e \in {x \in ends : ThreeDigitsAt(s, x)}}
                \cup {e + 4 : e \in {x \in ends : x <= Len(s) /\ s[x] = ","
                                                  /\ ThreeDigitsAt(s, x + 1)}}
    IN IF more \subseteq ends THEN ends ELSE GroupsEnds(s, ends \cup more)

IntegerEnds(s, i) ==
    GroupsEnds(s, {i + a : a \in {b \in 1..3 :
                       \A k \in 0..(b - 1) : i + k <= Len(s) /\ IsDigit(s[i + k])}})

NumberEnds(s, i) ==
    LET ints == IntegerEnds(s, i)
    IN ints
       \cup {e + 2 : e \in {x \in ints : x + 1 <= Len(s) /\ s[x] = "."
                                         /\ IsDigit(s[x + 1])}}
       \cup {e + 3 : e \in {x \in ints : x + 2 <= Len(s) /\ s[x] = "."
                                         /\ IsDigit(s[x + 1]) /\ IsDigit(s[x + 2])}}

\* int(digits), commas dropped (price_str.replace(',', ''))
RECURSIVE DigitsValue(_, _)
DigitsValue(t, acc) ==
    IF t = <<>> THEN acc
    ELSE IF t[1] = "," THEN DigitsValue(Tail(t), acc)
    ELSE DigitsValue(Tail(t), acc * 10 + DigitValue(t[1]))

\* float(price_str.replace(',', '')) of a match of the number pattern, in
\* pence.
ParsePence(t) ==
    LET dots == {i \in 1..Len(t) : t[i] = "."}
    IN IF dots = {} THEN DigitsValue(t, 0) * 100
       ELSE LET d == CHOOSE i \in dots : TRUE
                frac == SubSeq(t, d + 1, Len(t))
            IN DigitsValue(SubSeq(t, 1, d - 1), 0) * 100
               + (IF Len(frac) = 1 THEN DigitValue(frac[1]) * 10
                  ELSE DigitsValue(frac, 0))

(***************************************************************************)
(* extract_product_info: the purchase price                                *)
(***************************************************************************)

\* "No value": buy_price is None.
NoPrice == -1

\* The ISO codes, in the order of the PRICE_PATTERNS dict.
Currencies == <<"GBP", "USD", "EUR">>

CurrencyCode(c) ==
    CASE c = "GBP" -> <<"G","B","P">>
      [] c = "USD" -> <<"U","S","D">>
      [] c = "EUR" -> <<"E","U","R">>

CurrencySymbol(c) ==
    CASE c = "GBP" -> "pound"
      [] c = "USD" -> "$"
      [] c = "EUR" -> "euro"

\* 0.1 and 100000, in pence: the bounds of "if 0.1 <= price < 100000".
MinPricePence == 10
MaxPricePence == 10000000

\* A faulty range test: the minimum itself is refused.
AboveMinimum(pence) == MinPricePence < pence /\ pence < MaxPricePence

\* if 0.1 <= price < 100000
ReasonablePrice(pence) == MinPricePence <= pence /\ pence < MaxPricePence

\* price * EXCHANGE_RATES[currency] for a foreign currency, the price as it
\* is for GBP; in units of 1/10000 GBP (a rate is in hundredths).
ToGBP(pence, currency, rates) ==
    IF currency # "GBP" THEN pence * rates[currency] ELSE pence * 100

\* The currency code (GBP|USD|EUR, re.IGNORECASE) at i, upper-cased; "" if
\* there is none.
CodeOf(lower) ==
    IF lower = <<"g","b","p">> THEN "GBP"
    ELSE IF lower = <<"u","s","d">> THEN "USD"
    ELSE IF lower = <<"e","u","r">> THEN "EUR"
    ELSE ""

CodeAt(s, i) ==
    CodeOf(Lower(SubSeq(s, i, IF i + 2 <= Len(s) THEN i + 2 ELSE Len(s))))

\* The match at i of (number)\s+(GBP|USD|EUR): the number runs to the first
\* whitespace, the code follows the whitespace.
SpaceCurrencyEnd(s, i) == SkipNonSpaces(s, i)

SpaceCurrencyMatchesAt(s, i) ==
    LET j == SpaceCurrencyEnd(s, i)
    IN /\ j \in NumberEnds(s, i)
       /\ j <= Len(s)
       /\ CodeAt(s, SkipSpaces(s, j)) # ""

\* The groups of the match of Format 1 that starts at i and whose number
\* ends before j.
SpaceCurrencyGroups(s, i, j) ==
    [found |-> TRUE,
     price_str |-> SubSeq(s, i, j - 1),
     currency |-> CodeAt(s, SkipSpaces(s, j))]

\* re.search of Format 1 from i on: the leftmost match, as
\* [found, price_str, currency].
RECURSIVE SpaceCurrencySearch(_, _)
SpaceCurrencySearch(s, i) ==
    IF i > Len(s) THEN [found |-> FALSE, price_str |-> <<>>, currency |-> ""]
    ELSE IF SpaceCurrencyMatchesAt(s, i)
         THEN SpaceCurrencyGroups(s, i, SpaceCurrencyEnd(s, i))
         ELSE SpaceCurrencySearch(s, i + 1)

SpaceCurrencyMatch(s) == SpaceCurrencySearch(s, 1)

\* has_currency: the symbol or the upper-case code is in the text.
HasCurrency(s, c) ==
    Contains(s, <<CurrencySymbol(c)>>) \/ Contains(s, CurrencyCode(c))

\* PRICE_PATTERNS[c] matches at i: symbol or code (any case), \s*, a digit.
PatternPrefixEnd(s, i, c) ==
    IF s[i] = CurrencySymbol(c) THEN SkipSpaces(s, i + 1)
    ELSE IF CodeAt(s, i) = c THEN SkipSpaces(s, i + 3)
    ELSE 0

PatternMatchesAt(s, i, c) ==
    LET d == PatternPrefixEnd(s, i, c)
    IN d # 0 /\ d <= Len(s) /\ IsDigit(s[d])

\* Group 1 of the match of a pattern whose number starts at d.
PatternGroup(s, d) == SubSeq(s, d, NumberEnd(s, d) - 1)

\* re.findall(PRICE_PATTERNS[c], s, re.IGNORECASE)[0]: group 1 of the
\* leftmost match, searched from i on; <<>> when findall returns [].
RECURSIVE PatternSearch(_, _, _)
PatternSearch(s, c, i) ==
    IF i > Len(s) THEN <<>>
    ELSE IF PatternMatchesAt(s, i, c)
         THEN PatternGroup(s, PatternPrefixEnd(s, i, c))
         ELSE PatternSearch(s, c, i + 1)

FirstPatternMatch(s, c) == PatternSearch(s, c, 1)

\* "if buy_price" after a format: the price it found, or what comes next.
OrElse(price, next) == IF price # NoPrice THEN price ELSE next

\* One turn of the loop over PRICE_PATTERNS: m is the first match of the
\* pattern of currency c; NoPrice when the turn sets no buy_price.
CurrencyPrice(s, c, m, rates) ==
    IF HasCurrency(s, c) /\ m # <<>> /\ ReasonablePrice(ParsePence(m))
    THEN ToGBP(ParsePence(m), c, rates)
    ELSE NoPrice

\* Format 2: the currencies in dict order; the first whose first match is a
\* reasonable price gives the price.
RECURSIVE StandardPatterns(_, _, _)
StandardPatterns(s, k, rates) ==
    IF k > Len(Currencies) THEN NoPrice
    ELSE OrElse(CurrencyPrice(s, Currencies[k],
                              FirstPatternMatch(s, Currencies[k]), rates),
                StandardPatterns(s, k + 1, rates))

\* Format 1: m is the match of (number)\s+(GBP|USD|EUR); NoPrice when it
\* sets no buy_price.
SpaceCurrencyPrice(m, rates) ==
    IF m.found /\ ReasonablePrice(ParsePence(m.price_str))
    THEN ToGBP(ParsePence(m.price_str), m.currency, rates)
    ELSE NoPrice

\* The price one fragment yields (the body of the loop over search_order,
\* after the skip test): Format 1, then Format 2 if Format 1 found nothing.
FragmentPrice(s, rates) ==
    OrElse(SpaceCurrencyPrice(SpaceCurrencyMatch(s), rates),
           StandardPatterns(s, 1, rates))

(***************************************************************************)
(* extract_product_info: the fragments of an embed and their search order  *)
(*                                                                         *)
(* An embed is [title, description, author, footer, fields], the first     *)
(* four a str or None, fields a sequence of [name, value].                 *)
(***************************************************************************)

\* str(idx) for idx >= 0
RECURSIVE IntStr(_)
IntStr(n) ==
    IF n < 10 THEN <<Digits[n + 1]>>
    ELSE IntStr(n \div 10) \o <<Digits[(n % 10) + 1]>>

\* s.split(sep) for a one-character sep
RECURSIVE SplitOn(_, _)
SplitOn(s, sep) ==
    IF \E i \in 1..Len(s) : s[i] = sep
    THEN LET i == CHOOSE x \in 1..Len(s) :
                      s[x] = sep /\ \A y \in 1..(x - 1) : s[y] # sep
         IN <<SubSeq(s, 1, i - 1)>> \o SplitOn(From(s, i + 1), sep)
    ELSE <<s>>

FieldPrefix == <<"f","i","e","l","d","_">>

\* f'field_{idx}_name'
FieldNameLocation(idx) == FieldPrefix \o IntStr(idx) \o <<"_","n","a","m","e">>

\* f'field_{idx}_value', idx a str
ValueLocation(idx) == FieldPrefix \o idx \o <<"_","v","a","l","u","e">>

\* The two entries all_text gets per field, for the fields from idx on.
RECURSIVE FieldTexts(_, _)
FieldTexts(fields, idx) ==
    IF idx >= Len(fields) THEN <<>>
    ELSE << [location |-> FieldNameLocation(idx), text |-> fields[idx + 1].name],
            [location |-> ValueLocation(IntStr(idx)), text |-> fields[idx + 1].value] >>
         \o FieldTexts(fields, idx + 1)

\* all_text: the (location, text) pairs, in the order the code appends them.
AllText(embed) ==
    (IF Truthy(embed.title)
     THEN <<[location |-> <<"t","i","t","l","e">>, text |-> embed.title]>>
     ELSE <<>>)
    \o (IF Truthy(embed.description)
        THEN <<[location |-> <<"d","e","s","c","r","i","p","t","i","o","n">>,
                text |-> embed.description]>>
        ELSE <<>>)
    \o (IF Truthy(embed.author)
        THEN <<[location |-> <<"a","u","t","h","o","r">>, text |-> embed.author]>>
        ELSE <<>>)
    \o (IF Truthy(embed.footer)
        THEN <<[location |-> <<"f","o","o","t","e","r">>, text |-> embed.footer]>>
        ELSE <<>>)
    \o FieldTexts(embed.fields, 0)

\* price_field_text is None
NoFragment == [location |-> None, text |-> None]

\* The item of all_text at value_location (the inner loop with its break).
ValueItem(all_text, value_location) ==
    LET hits == {k \in 1..Len(all_text) : all_text[k].location = value_location}
    IN IF hits = {} THEN NoFragment
       ELSE [location |-> value_location,
             text |-> all_text[CHOOSE k \in hits : \A j \in hits : k <= j].text]

\* The loop that sets price_field_text, from entry k on: every field name
\* holding 'price' assigns it again, so the last such field stands.
\* One turn of the loop that sets price_field_text: what the entry at
\* (location, text) assigns to it, NoFragment if it assigns nothing.
PriceFieldHit(all_text, location, text) ==
    IF /\ Contains(location, <<"f","i","e","l","d","_">>)
       /\ Contains(location, <<"n","a","m","e">>)
       /\ Truthy(text)
       /\ Contains(Lower(text), <<"p","r","i","c","e">>)
    THEN ValueItem(all_text, ValueLocation(SplitOn(location, "_")[2]))
    ELSE NoFragment

\* price_field_text after a turn that assigns hit to it, or nothing.
Assigned(hit, price_field_text) ==
    IF hit # NoFragment THEN hit ELSE price_field_text

\* The loop that sets price_field_text, from entry k on: every field name
\* holding 'price' assigns it again, so the last such field stands.
RECURSIVE PriceFieldFrom(_, _, _)
PriceFieldFrom(all_text, k, price_field_text) ==
    IF k > Len(all_text) THEN price_field_text
    ELSE PriceFieldFrom(all_text, k + 1,
                        Assigned(PriceFieldHit(all_text, all_text[k].location,
                                               all_text[k].text),
                                 price_field_text))

PriceFieldText(all_text) == PriceFieldFrom(all_text, 1, NoFragment)

\* search_order for a given price_field_text
Promoted(price_field_text, all_text) ==
    IF price_field_text # NoFragment
    THEN <<price_field_text>>
         \o SelectSeq(all_text, LAMBDA item : item # price_field_text)
    ELSE SelectSeq(all_text, LAMBDA item : item # price_field_text)

\* search_order
SearchOrder(all_text) == Promoted(PriceFieldText(all_text), all_text)

\* if 'notice' in location.lower() or 'resell' in text_str.lower(): continue
SkipFragment(location, text_str) ==
    \/ Contains(Lower(location), <<"n","o","t","i","c","e">>)
    \/ Contains(Lower(text_str), <<"r","e","s","e","l","l">>)

\* The loop over search_order from entry k on: the first fragment that is
\* not empty, not skipped and yields a price ends it ("if buy_price: break").
\* One turn of the loop over search_order: the buy_price the entry sets,
\* NoPrice when the turn is skipped or no format matches.
TurnPrice(item, rates) ==
    IF Truthy(item.text) /\ ~SkipFragment(item.location, item.text)
    THEN FragmentPrice(item.text, rates)
    ELSE NoPrice

\* "if buy_price: break": the loop ends with price found at location, or
\* goes on to what the later entries give.
BreakOr(price, location, later) ==
    IF price # NoPrice /\ price # 0
    THEN [buy_price |-> price, location |-> location]
    ELSE later

\* The loop over search_order from entry k on: the first fragment that is
\* not empty, not skipped and yields a price ends it.
RECURSIVE SearchPrice(_, _, _)
SearchPrice(search_order, k, rates) ==
    IF k > Len(search_order) THEN [buy_price |-> NoPrice, location |-> None]
    ELSE BreakOr(TurnPrice(search_order[k], rates), search_order[k].location,
                 SearchPrice(search_order, k + 1, rates))

\* extract_product_info, without the product link: product_name, buy_price,
\* and the location the code logs for the price it found.
extract_product_info(embed, rates) ==
    [product_name |-> IF Truthy(embed.title)
                      THEN clean_product_name(embed.title) ELSE None]
    @@ SearchPrice(SearchOrder(AllText(embed)), 1, rates)

(***************************************************************************)
(* Query variants                                                          *)
(***************************************************************************)

\* f'"{s}"'
Quoted(s) == <<"\"">> \o s \o <<"\"">>

\* str(None), as an f-string formats it
NoneText == <<"N","o","n","e">>

\* The variants built from the cleaned name.
Variants(cleaned) ==
    LET words == Split(cleaned)
    IN <<IF Len(words) <= 8 THEN Quoted(cleaned) ELSE Quoted(Join(Take(words, 8)))>>
       \o <<IF Len(words) <= 10 THEN cleaned ELSE Join(Take(words, 10))>>
       \o (IF Len(words) >= 6 THEN <<Join(Take(words, 6))>> ELSE <<>>)
       \o (IF Len(words) >= 3 THEN <<Join(Take(words, Len(words) - 1))>> ELSE <<>>)

\* search_queries of get_ebay_sold_prices_api; product_name is a str.
SearchQueries(product_name) == Variants(clean_product_name(product_name))

\* A faulty list for the scraper: the first two variants of the API, capped.
CappedVariants(cleaned) == Take(Variants(cleaned), 2)

\* [f'"{cleaned}"', cleaned]
ScrapeVariants(cleaned) ==
    << Quoted(IF cleaned = None THEN NoneText ELSE cleaned), cleaned >>

\* search_queries of scrape_ebay_sold_prices_selenium; product_name may be
\* None, which clean_product_name returns as it is.
ScrapeQueries(product_name) == ScrapeVariants(clean_product_name(product_name))

\* A faulty loop over search_queries: it gives up after the first variant.
FirstVariantOnly(search_queries, i) ==
    IF i = 0 /\ Len(search_queries) > 0 THEN 1 ELSE 0

\* The first index after i of a variant that is sent: the loop skips a
\* variant that is empty once stripped.  0 if there is none.
NextQuery(search_queries, i) ==
    LET later == {k \in (i + 1)..Len(search_queries) : Strip(search_queries[k]) # <<>>}
    IN IF later = {} THEN 0 ELSE CHOOSE k \in later : \A j \in later : k <= j

\* The 'keywords' parameter sent for a variant.
Keywords(query, product_name) == Strip(query) \o get_exclusion_terms(product_name)

(***************************************************************************)
(* Summaries                                                               *)
(***************************************************************************)

\* ebay_data is None
NoSummary == [present |-> FALSE]

\* (None, None, 0)
NoResult == [ebay_data |-> NoSummary, resell_price |-> NoPrice, sold_count |-> 0]

RECURSIVE SumSeq(_)
SumSeq(s) == IF s = <<>> THEN 0 ELSE s[1] + SumSeq(Tail(s))

\* min(prices), max(prices)
MinOf(prices) == CHOOSE x \in {prices[i] : i \in 1..Len(prices)} :
                     \A i \in 1..Len(prices) : x <= prices[i]

MaxOf(prices) == CHOOSE x \in {prices[i] : i \in 1..Len(prices)} :
                     \A i \in 1..Len(prices) : x >= prices[i]

\* A faulty median: the upper of the two middle values of an even count.
UpperMedian(prices) ==
    SortSeq(prices, LAMBDA a, b : a < b)[(Len(prices) \div 2) + 1]

\* statistics.median: the middle of the sorted data, or the mean of the two
\* middle values (prices are whole pence, so the half is a whole unit).
Median(prices) ==
    LET data == SortSeq(prices, LAMBDA a, b : a < b)
        n == Len(data)
    IN IF n % 2 = 1 THEN data[(n \div 2) + 1]
       ELSE (data[n \div 2] + data[(n \div 2) + 1]) \div 2

\* statistics.mean, as the fraction sum / count.
Mean(prices) == [num |-> SumSeq(prices), den |-> Len(prices)]

\* The triple both sources return for a non-empty sold_prices.
Summarise(sold_prices, query) ==
    [ebay_data |-> [present |-> TRUE,
                    average |-> Mean(sold_prices),
                    median |-> Median(sold_prices),
                    min |-> MinOf(sold_prices),
                    max |-> MaxOf(sold_prices),
                    count |-> Len(sold_prices),
                    prices |-> sold_prices,
                    query_used |-> query],
     resell_price |-> Median(sold_prices),
     sold_count |-> Len(sold_prices)]

(***************************************************************************)
(* One call of the Finding API (the body of the loop over search_queries)  *)
(*                                                                         *)
(* A response is [status, items]: "timeout" and "error" are exceptions of  *)
(* session.get, "http_error" a status other than 200, "failure" an ack of  *)
(* 'Failure', "malformed" a body on which the parsing raises, "ok" a body  *)
(* whose items carry the prices of items (0 where __value__ is missing).   *)
(***************************************************************************)

FailureStatuses == {"timeout", "error", "http_error", "failure", "malformed"}

\* sold_prices: the prices > 0, in the order of the items
PositivePrices(items) == SelectSeq(items, LAMBDA price : price > 0)

\* A faulty iteration: a failed request ends the search with no result.
AbortOnFailure(query, response) ==
    IF response.status \in FailureStatuses
    THEN [returns |-> TRUE, result |-> NoResult]
    ELSE IF PositivePrices(response.items) # <<>>
    THEN [returns |-> TRUE, result |-> Summarise(PositivePrices(response.items), query)]
    ELSE [returns |-> FALSE, result |-> NoResult]

\* What one iteration ends in: [returns |-> TRUE, result |-> the triple
\* returned] or [returns |-> FALSE] when the loop goes on.
ApiIteration(query, response) ==
    IF response.status = "ok" /\ PositivePrices(response.items) # <<>>
    THEN [returns |-> TRUE, result |-> Summarise(PositivePrices(response.items), query)]
    ELSE [returns |-> FALSE, result |-> NoResult]

(***************************************************************************)
(* _scrape_ebay_sync                                                       *)
(*                                                                         *)
(* A page is [status, items]: "driver_error" is an exception of            *)
(* get_driver, "load_error" one of driver.get, "no_list" a page without    *)
(* ul.srp-results, "ok" a page whose items each carry the amounts the      *)
(* pattern finds in the item text, in order, in units of 1/10000 GBP.      *)
(***************************************************************************)

\* 5 < price < 10000, in units of 1/10000 GBP
ScrapeMin == 50000
ScrapeMax == 100000000

\* The first match of an item with 5 < price < 10000, as a sequence of at
\* most one price.
ItemPrice(matches) ==
    LET ok == SelectSeq(matches, LAMBDA price : ScrapeMin < price /\ price < ScrapeMax)
    IN IF ok = <<>> THEN <<>> ELSE <<ok[1]>>

RECURSIVE ScrapedPrices(_)
ScrapedPrices(items) ==
    IF items = <<>> THEN <<>>
    ELSE ItemPrice(items[1]) \o ScrapedPrices(Tail(items))

\* items[:max_results]
max_results == 10

\* The exit a call takes: "get_driver" when get_driver raises (line 320),
\* "exception" when a later line of the try raises (get_exclusion_terms on
\* None, driver.get), else the return statement reached.
ExitPath(original_product_name, page) ==
    IF page.status = "driver_error" THEN "get_driver"
    ELSE IF original_product_name = None THEN "exception"
    ELSE IF page.status = "load_error" THEN "exception"
    ELSE IF page.status = "no_list" THEN "no_list"
    ELSE IF Len(page.items) = 0 THEN "no_items"
    ELSE IF ScrapedPrices(Take(page.items, max_results)) = <<>> THEN "no_prices"
    ELSE "success"

\* driver is set at the exit: get_driver returned.
Acquired(exit) == exit # "get_driver"

\* A faulty release: driver.quit() before the returns of the try only, so
\* that an exception skips it.
QuitOnReturn(exit) == exit \notin {"get_driver", "exception"}

\* finally: if driver: driver.quit()
QuitInFinally(exit) == Acquired(exit)

\* The drivers created so far, each "quit" or "open", after a call that
\* took the exit.
DriversAfter(created, exit) ==
    IF Acquired(exit)
    THEN Append(created, IF QuitInFinally(exit) THEN "quit" ELSE "open")
    ELSE created

_scrape_ebay_sync(search_query, original_product_name, page) ==
    IF page.status \in {"driver_error", "load_error"} THEN NoResult
    ELSE IF original_product_name = None THEN NoResult
    ELSE IF page.status = "no_list" THEN NoResult
    ELSE IF Len(page.items) = 0 THEN NoResult
    ELSE LET sold_prices == ScrapedPrices(Take(page.items, max_results))
         IN IF sold_prices # <<>> THEN Summarise(sold_prices, search_query)
            ELSE NoResult

(***************************************************************************)
(* create_alert_embed and the alert status of on_message                   *)
(***************************************************************************)

UnknownProduct == <<"U","n","k","n","o","w","n"," ","P","r","o","d","u","c","t">>

\* 50 and 20 pounds, in units of 1/10000 GBP
HighProfit == 500000
GoodProfit == 200000

\* (profit / actual_cost) * 100 as a fraction; 0 when actual_cost is 0
ProfitPercent(profit, actual_cost) ==
    IF actual_cost > 0 THEN [num |-> profit * 100, den |-> actual_cost]
    ELSE [num |-> 0, den |-> 1]

\* "if not buy_price: buy_price = 0"
DefaultedPrice(buy_price) == IF buy_price = NoPrice \/ buy_price = 0 THEN 0 ELSE buy_price

\* "if ebay_data and resell_price and resell_price > actual_cost"
ShowsProfit(ebay_data, resell_price, actual_cost) ==
    /\ ebay_data # NoSummary
    /\ resell_price # NoPrice /\ resell_price # 0
    /\ resell_price > actual_cost

\* A faulty profit: the difference whatever its sign.
SignedProfit(ebay_data, resell_price, actual_cost) ==
    IF ebay_data # NoSummary /\ resell_price # NoPrice /\ resell_price # 0
    THEN resell_price - actual_cost
    ELSE 0

\* profit, as create_alert_embed returns it
Profit(ebay_data, resell_price, actual_cost) ==
    IF ShowsProfit(ebay_data, resell_price, actual_cost)
    THEN resell_price - actual_cost
    ELSE 0

\* The colour of the embed.
Color(ebay_data, resell_price, actual_cost) ==
    LET profit == Profit(ebay_data, resell_price, actual_cost)
    IN IF ShowsProfit(ebay_data, resell_price, actual_cost)
       THEN IF profit > HighProfit THEN "gold"
            ELSE IF profit > GoodProfit THEN "green"
            ELSE "blue"
       ELSE "orange"

\* The first field of the embed.
Headline(ebay_data, profit, sold_count) ==
    IF ebay_data # NoSummary /\ profit > 0 THEN "ESTIMATED PROFIT"
    ELSE IF ebay_data # NoSummary /\ sold_count > 0 THEN "LOW/NO PROFIT"
    ELSE "NO EBAY SALES DATA"

\* The embed create_alert_embed builds (the fields the verdict rests on) and
\* the (profit, sold_count) it returns with it.
AlertEmbed(info, ebay_data, resell_price, sold_count) ==
    LET product_name == IF ~Truthy(info.product_name) THEN UnknownProduct
                        ELSE info.product_name
        buy_price == DefaultedPrice(info.buy_price)
        actual_cost == buy_price
        profit == Profit(ebay_data, resell_price, actual_cost)
    IN [title |-> product_name,
        buy_price |-> buy_price,
        color |-> Color(ebay_data, resell_price, actual_cost),
        headline |-> Headline(ebay_data, profit, sold_count),
        profit |-> profit,
        profit_percent |-> IF ShowsProfit(ebay_data, resell_price, actual_cost)
                           THEN ProfitPercent(profit, actual_cost)
                           ELSE [num |-> 0, den |-> 1],
        sold_count |-> sold_count]

create_alert_embed(original_embed, rates, ebay_data, resell_price, sold_count) ==
    AlertEmbed(extract_product_info(original_embed, rates),
               ebay_data, resell_price, sold_count)

\* A faulty alert_status: a tier is reached at its threshold.
ThresholdIncluded(sold_count, profit) ==
    IF sold_count = 0 THEN "NO SALES DATA - RESEARCH REQUIRED"
    ELSE IF profit >= HighProfit THEN "HIGH PROFIT DEAL"
    ELSE IF profit >= GoodProfit THEN "PROFITABLE DEAL"
    ELSE IF profit > 0 THEN "DEAL DETECTED"
    ELSE "LOW/NO PROFIT"

\* A faulty alert_status: no profit reads as no sales data.
ConflatedStatus(sold_count, profit) ==
    IF sold_count = 0 \/ profit <= 0 THEN "NO SALES DATA - RESEARCH REQUIRED"
    ELSE IF profit > HighProfit THEN "HIGH PROFIT DEAL"
    ELSE IF profit > GoodProfit THEN "PROFITABLE DEAL"
    ELSE "DEAL DETECTED"

\* alert_status of on_message
AlertStatus(sold_count, profit) ==
    IF sold_count = 0 THEN "NO SALES DATA - RESEARCH REQUIRED"
    ELSE IF profit > HighProfit THEN "HIGH PROFIT DEAL"
    ELSE IF profit > GoodProfit THEN "PROFITABLE DEAL"
    ELSE IF profit > 0 THEN "DEAL DETECTED"
    ELSE "LOW/NO PROFIT"

\* create_initial_embed: the title and the buy price it shows
PlaceholderEmbed(info) ==
    [title |-> IF ~Truthy(info.product_name) THEN UnknownProduct
               ELSE info.product_name,
     buy_price |-> DefaultedPrice(info.buy_price)]

create_initial_embed(original_embed, rates) ==
    PlaceholderEmbed(extract_product_info(original_embed, rates))

\* A faulty test: on_message calls the scraper whatever the API returned.
FallbackAlways(result) == TRUE

\* "if not ebay_data or sold_count == 0": on_message calls the scraper
FallbackNeeded(result) == result.ebay_data = NoSummary \/ result.sold_count = 0

(***************************************************************************)
(* The state of one run of on_message on one embed                         *)
(***************************************************************************)

VARIABLES
    embed,            \* the embed of the incoming message
    EBAY_APP_ID,      \* whether the eBay application id is configured
    EXCHANGE_RATES,   \* the rate table, in hundredths of GBP per unit
    pc,               \* where on_message stands
    ping_title,       \* the product name in the content of the alert message
    initial_embed,    \* what create_initial_embed built
    product_name,     \* product_name of on_message (line 874)
    buy_price,        \* buy_price of on_message (line 874)
    price_location,   \* the location extract_product_info logged for it
    search_queries,   \* search_queries of get_ebay_sold_prices_api
    qi,               \* the index of the variant whose request is in flight
    api_sent,         \* the requests sent to the API: [query, keywords]
    api_replies,      \* per request answered: did the body carry a price > 0
    last_status,      \* the status of the last API response
    scrape_queries,   \* search_queries of scrape_ebay_sold_prices_selenium
    si,               \* the index of the query being scraped
    scrape_sent,      \* the queries handed to _scrape_ebay_sync
    scrape_replies,   \* per query scraped: did the page carry a price in range
    page_status,      \* the status of the last page scraped
    result,           \* (ebay_data, resell_price, sold_count) of on_message
    final_embed,      \* what create_alert_embed built
    alert_status,     \* alert_status of on_message
    drivers           \* the drivers get_driver created: "open" or "quit"

vars == <<embed, EBAY_APP_ID, EXCHANGE_RATES, pc, ping_title, initial_embed,
          product_name, buy_price, price_location, search_queries, qi, api_sent,
          api_replies, last_status, scrape_queries, si, scrape_sent,
          scrape_replies, page_status, result, final_embed, alert_status,
          drivers>>

\* The fallback rates of the EXCHANGE_RATES dict, in hundredths.
DefaultRates == [USD |-> 79, EUR |-> 86, GBP |-> 100]

NoEmbed == [title |-> <<>>, buy_price |-> NoPrice]

\* The sequences over S of length at most n
SeqsUpTo(S, n) == UNION {[1..k -> S] : k \in 0..n}

(***************************************************************************)
(* The inputs                                                              *)
(***************************************************************************)

\* The most items a Finding API response carries, and a scraped page.
MaxItems == 3
MaxScrapeItems == 2

\* The sale prices an API item can carry (0: no price), in 1/10000 GBP.
SalePrices == {0, 100000, 600000, 650000, 700000}

ApiResponses ==
    {[status |-> s, items |-> <<>>] : s \in FailureStatuses}
    \cup {[status |-> "malformed", items |-> <<650000>>]}
    \cup {[status |-> "ok", items |-> i] : i \in SeqsUpTo(SalePrices, MaxItems)}

\* What the price pattern finds in the text of one scraped item: amounts at
\* 5 and at 10000 pounds are outside the accepted range.
ItemMatches == { <<>>, <<50000>>, <<120000>>, <<50000, 120000>>,
                 <<300000, 120000>>, <<100000000>> }

ScrapePages ==
    {[status |-> s, items |-> <<>>] :
        s \in {"driver_error", "load_error", "no_list"}}
    \cup {[status |-> "ok", items |-> i] : i \in SeqsUpTo(ItemMatches, MaxScrapeItems)}

Field(name, value) == [name |-> name, value |-> value]

PriceName == <<"P","r","i","c","e">>

\* "Pokemon - Mega Evolutions Booster Box [TEST]" with an e acute and an en
\* dash, and a Price field of 45.00 pounds.
MegaEvolutions ==
    [title |-> <<"P","o","k","eacute","m","o","n"," ","endash"," ","M","e","g","a",
                 " ","E","v","o","l","u","t","i","o","n","s"," ","B","o","o","s","t",
                 "e","r"," ","B","o","x"," ","[","T","E","S","T","]">>,
     description |-> None, author |-> None, footer |-> None,
     fields |-> <<Field(PriceName, <<"pound","4","5",".","0","0">>)>>]

\* A single item at "10.00 GBP".
BoosterPack ==
    [title |-> <<"B","o","o","s","t","e","r"," ","P","a","c","k">>,
     description |-> None, author |-> None, footer |-> None,
     fields |-> <<Field(PriceName, <<"1","0",".","0","0"," ","G","B","P">>)>>]

\* No title; a dollar price in the description.
Untitled ==
    [title |-> None,
     description |-> <<"R","e","s","t","o","c","k"," ","$","2","0">>,
     author |-> None, footer |-> None, fields |-> <<>>]

\* Seven words and no price anywhere.
Unpriced ==
    [title |-> <<"S","c","a","r","l","e","t"," ","V","i","o","l","e","t"," ",
                 "1","5","1"," ","E","l","i","t","e"," ","T","r","a","i","n","e","r",
                 " ","B","o","x"," ","R","e","s","t","o","c","k">>,
     description |-> None, author |-> None, footer |-> None, fields |-> <<>>]

\* A title that cleans to the empty string.
TestOnly ==
    [title |-> <<"[","T","E","S","T","]">>,
     description |-> None, author |-> None, footer |-> None,
     fields |-> <<Field(<<"C","o","s","t">>, <<"pound","1","0">>)>>]

Alerts == {MegaEvolutions, BoosterPack, Untitled, Unpriced, TestOnly}

(***************************************************************************)
(* on_message                                                              *)
(***************************************************************************)

\* on_message is called with an embed of alerts.
Received(alerts) ==
    /\ embed \in alerts
    /\ EBAY_APP_ID \in BOOLEAN
    /\ EXCHANGE_RATES = DefaultRates
    /\ pc = "ping"
    /\ ping_title = <<>>
    /\ initial_embed = NoEmbed
    /\ product_name = None
    /\ buy_price = NoPrice
    /\ price_location = None
    /\ search_queries = <<>>
    /\ qi = 0
    /\ api_sent = <<>>
    /\ api_replies = <<>>
    /\ last_status = ""
    /\ scrape_queries = <<>>
    /\ si = 0
    /\ scrape_sent = <<>>
    /\ scrape_replies = <<>>
    /\ page_status = ""
    /\ result = NoResult
    /\ final_embed = NoEmbed
    /\ alert_status = ""
    /\ drivers = <<>>

Init == Received(Alerts)

\* Lines 826-865: the immediate ping, with the cleaned title.
SendPing ==
    /\ pc = "ping"
    /\ ping_title' = clean_product_name(IF Truthy(embed.title) THEN embed.title
                                        ELSE UnknownProduct)
    /\ pc' = "initial"
    /\ UNCHANGED <<embed, EBAY_APP_ID, EXCHANGE_RATES, initial_embed, product_name,
                   buy_price, price_location, search_queries, qi, api_sent,
                   api_replies, last_status, scrape_queries, si, scrape_sent,
                   scrape_replies, page_status, result, final_embed,
                   alert_status,
                   drivers>>

\* Lines 868-869: the placeholder embed.
InitialEmbed ==
    /\ pc = "initial"
    /\ initial_embed' = create_initial_embed(embed, EXCHANGE_RATES)
    /\ pc' = "search"
    /\ UNCHANGED <<embed, EBAY_APP_ID, EXCHANGE_RATES, ping_title, product_name,
                   buy_price, price_location, search_queries, qi, api_sent,
                   api_replies, last_status, scrape_queries, si, scrape_sent,
                   scrape_replies, page_status, result, final_embed,
                   alert_status,
                   drivers>>

\* on_message turns to the scraper (line 882): the first query goes out.
FirstScrape(queries) ==
    /\ scrape_queries' = queries
    /\ si' = 1
    /\ scrape_sent' = <<queries[1]>>
    /\ pc' = "scrape"

StartScrape(name) == FirstScrape(ScrapeQueries(name))

\* The request for variant k goes out.
SendQuery(queries, k, name) ==
    /\ qi' = k
    /\ api_sent' = Append(api_sent, [query |-> queries[k],
                                     keywords |-> Keywords(queries[k], name)])
    /\ pc' = "api"

\* What on_message does with the triple the API search returned.
AfterApi(r, name) ==
    IF FallbackNeeded(r)
    THEN /\ StartScrape(name)
         /\ result' = r
    ELSE /\ result' = r
         /\ pc' = "final"
         /\ UNCHANGED <<scrape_queries, si, scrape_sent>>

\* get_ebay_sold_prices_api from its variants to the first request: the
\* first variant that is not empty goes out; with none the loop ends at
\* once and the function returns (None, None, 0).
FirstQuery(queries, name) ==
    LET k == NextQuery(queries, 0)
    IN /\ search_queries' = queries
       /\ IF k # 0
          THEN /\ SendQuery(queries, k, name)
               /\ UNCHANGED <<scrape_queries, si, scrape_sent, result>>
          ELSE /\ AfterApi(NoResult, name)
               /\ UNCHANGED <<qi, api_sent>>

\* Lines 874-877 for the triple extract_product_info returned.  Without an
\* application id get_ebay_sold_prices_api returns (None, None, 0) at once;
\* with one, a product_name of None raises at cleaned.split(), outside every
\* try of the function, and the handler of on_message abandons the embed.
SearchFor(info) ==
    /\ product_name' = info.product_name
    /\ buy_price' = info.buy_price
    /\ price_location' = info.location
    /\ IF ~EBAY_APP_ID
       THEN /\ AfterApi(NoResult, info.product_name)
            /\ UNCHANGED <<search_queries, qi, api_sent>>
       ELSE IF info.product_name = None
       THEN /\ pc' = "failed"
            /\ UNCHANGED <<search_queries, qi, api_sent, scrape_queries, si,
                           scrape_sent, result>>
       ELSE FirstQuery(SearchQueries(info.product_name), info.product_name)

\* Lines 874-877 up to the first request.
StartSearch ==
    /\ pc = "search"
    /\ SearchFor(extract_product_info(embed, EXCHANGE_RATES))
    /\ UNCHANGED <<embed, EBAY_APP_ID, EXCHANGE_RATES, ping_title, initial_embed,
                   api_replies, last_status, scrape_replies, page_status,
                   final_embed, alert_status,
                   drivers>>

\* What a response is, seen from outside the function: whether it is a
\* body that parses and carries a price above 0.
ApiReply(response) ==
    /\ response.status = "ok"
    /\ \E i \in 1..Len(response.items) : response.items[i] > 0

\* The response to the request in flight: one iteration of the loop of
\* get_ebay_sold_prices_api from the answer on, and what follows without
\* another await.
ApiResponse(response) ==
    /\ pc = "api"
    /\ last_status' = response.status
    /\ api_replies' = Append(api_replies, ApiReply(response))
    /\ LET it == ApiIteration(search_queries[qi], response)
           k == NextQuery(search_queries, qi)
       IN IF it.returns
          THEN /\ AfterApi(it.result, product_name)
               /\ UNCHANGED <<qi, api_sent>>
          ELSE IF k # 0
          THEN /\ SendQuery(search_queries, k, product_name)
               /\ UNCHANGED <<scrape_queries, si, scrape_sent, result>>
          ELSE /\ AfterApi(NoResult, product_name)
               /\ UNCHANGED <<qi, api_sent>>
    /\ UNCHANGED <<embed, EBAY_APP_ID, EXCHANGE_RATES, ping_title, initial_embed,
                   product_name, buy_price, price_location, search_queries,
                   scrape_replies, page_status, final_embed, alert_status,
                   drivers>>

\* The pages the scraper can be shown: with a product_name of None the
\* attempt raises at get_driver or, with a driver, at get_exclusion_terms,
\* before any page is loaded.
PagesFor(name) ==
    IF name = None
    THEN {page \in ScrapePages : page.status \in {"driver_error", "load_error"}}
    ELSE ScrapePages

\* What a page is, seen from outside the function: whether it loads and an
\* item of it carries an amount between 5 and 10000 pounds.
ScrapeReply(page) ==
    /\ page.status = "ok"
    /\ \E i \in 1..Len(page.items) : \E j \in 1..Len(page.items[i]) :
           page.items[i][j] > 50000 /\ page.items[i][j] < 100000000

\* One turn of the loop of scrape_ebay_sold_prices_selenium: the executor
\* returns the result of _scrape_ebay_sync for the query.
ScrapeResponse(page) ==
    /\ pc = "scrape"
    /\ page \in PagesFor(product_name)
    /\ page_status' = page.status
    /\ scrape_replies' = Append(scrape_replies, ScrapeReply(page))
    /\ drivers' = DriversAfter(drivers, ExitPath(product_name, page))
    /\ LET r == _scrape_ebay_sync(scrape_queries[si], product_name, page)
       IN IF r.ebay_data # NoSummary
          THEN /\ result' = r
               /\ pc' = "final"
               /\ UNCHANGED <<si, scrape_sent>>
          ELSE IF si < Len(scrape_queries)
          THEN /\ si' = si + 1
               /\ scrape_sent' = Append(scrape_sent, scrape_queries[si + 1])
               /\ UNCHANGED <<pc, result>>
          ELSE /\ result' = NoResult
               /\ pc' = "final"
               /\ UNCHANGED <<si, scrape_sent>>
    /\ UNCHANGED <<embed, EBAY_APP_ID, EXCHANGE_RATES, ping_title, initial_embed,
                   product_name, buy_price, price_location, search_queries, qi,
                   api_sent, api_replies, last_status, scrape_queries,
                   final_embed, alert_status>>

\* Lines 885-927: the final embed and the alert status.
EditAlert(e) ==
    /\ final_embed' = e
    /\ alert_status' = AlertStatus(e.sold_count, e.profit)

FinalEmbed ==
    /\ pc = "final"
    /\ EditAlert(create_alert_embed(embed, EXCHANGE_RATES, result.ebay_data,
                                    result.resell_price, result.sold_count))
    /\ pc' = "done"
    /\ UNCHANGED <<embed, EBAY_APP_ID, EXCHANGE_RATES, ping_title, initial_embed,
                   product_name, buy_price, price_location, search_queries, qi,
                   api_sent, api_replies, last_status, scrape_queries, si,
                   scrape_sent, scrape_replies, page_status, result,
                   drivers>>

Next ==
    \/ SendPing
    \/ InitialEmbed
    \/ StartSearch
    \/ \E response \in ApiResponses : ApiResponse(response)
    \/ \E page \in ScrapePages : ScrapeResponse(page)
    \/ FinalEmbed

Spec == Init /\ [][Next]_vars

(***************************************************************************)
(* extract_product_info on its own: on_message up to the extraction, on    *)
(* payloads built from a pool of titles and fields                         *)
(***************************************************************************)

\* The most fields a payload carries.
MaxFields == 2

Titles == { <<"B","o","o","s","t","e","r"," ","B","o","x">>,
           <<"W","i","n"," ","pound","5"," ","v","o","u","c","h","e","r">> }

FieldPool ==
    { Field(PriceName, <<"pound","4","5">>),
      Field(<<"P","r","i","c","e"," ","n","o","t","e">>, <<"T","B","C">>),
      Field(<<"R","e","s","e","l","l"," ","P","r","i","c","e">>, <<"pound","8","0">>),
      Field(<<"N","o","t","i","c","e">>, <<"pound","8","0">>),
      Field(<<"R","e","t","a","i","l">>, <<"1","0",".","0","0"," ","G","B","P">>) }

Payloads ==
    {[title |-> t, description |-> None, author |-> None, footer |-> None,
      fields |-> f] : t \in Titles, f \in SeqsUpTo(FieldPool, MaxFields)}

InitExtract == Received(Payloads)

NextExtract == SendPing \/ InitialEmbed \/ StartSearch

SpecExtract == InitExtract /\ [][NextExtract]_vars

(***************************************************************************)
(* extract_product_info at the ends of the accepted range: payloads whose  *)
(* fields quote amounts at, just inside and just outside 0.1 and 100000    *)
(***************************************************************************)

\* The values quoted, each with the amount it reads as (in pence) and its
\* currency: 0.09, 0.1, 0.10, 0.11, 99999.99, 100000 and 100,000 pounds,
\* and 0.1 dollars; symbol first (Format 2) or code last (Format 1).
BoundaryQuotes ==
    { [value |-> <<"pound","0",".","0","9">>, pence |-> 9, currency |-> "GBP"],
      [value |-> <<"pound","0",".","1">>, pence |-> 10, currency |-> "GBP"],
      [value |-> <<"0",".","1","0"," ","G","B","P">>, pence |-> 10,
       currency |-> "GBP"],
      [value |-> <<"pound","0",".","1","1">>, pence |-> 11, currency |-> "GBP"],
      [value |-> <<"9","9",",","9","9","9",".","9","9"," ","G","B","P">>,
       pence |-> 9999999, currency |-> "GBP"],
      [value |-> <<"pound","1","0","0","0","0","0">>, pence |-> 10000000,
       currency |-> "GBP"],
      [value |-> <<"1","0","0",",","0","0","0"," ","G","B","P">>,
       pence |-> 10000000, currency |-> "GBP"],
      [value |-> <<"$","0",".","1">>, pence |-> 10, currency |-> "USD"] }

\* A title without an amount and fields named "Cost", one per value quoted.
BoundaryPayloads ==
    {[title |-> <<"B","o","o","s","t","e","r"," ","B","o","x">>,
      description |-> None, author |-> None, footer |-> None,
      fields |-> [k \in 1..Len(q) |-> Field(<<"C","o","s","t">>, q[k].value)]] :
        q \in SeqsUpTo(BoundaryQuotes, MaxFields)}

SpecBoundary == Received(BoundaryPayloads) /\ [][NextExtract]_vars

(***************************************************************************)
(* on_message on titles of two to eleven words                             *)
(***************************************************************************)

\* "Booster Pack"; "Destined Rivals Booster Box"; a title of nine words,
\* "XY Evolutions ETB Box New UK In Stock Now"; one of eleven, "Sun Moon
\* Team Up ETB Box New UK Buy It Now".
QueryTitles ==
    { <<"B","o","o","s","t","e","r"," ","P","a","c","k">>,
      <<"D","e","s","t","i","n","e","d"," ","R","i","v","a","l","s"," ","B",
        "o","o","s","t","e","r"," ","B","o","x">>,
      <<"X","Y"," ","E","v","o","l","u","t","i","o","n","s"," ","E","T","B",
        " ","B","o","x"," ","N","e","w"," ","U","K"," ","I","n"," ","S","t",
        "o","c","k"," ","N","o","w">>,
      <<"S","u","n"," ","M","o","o","n"," ","T","e","a","m"," ","U","p"," ",
        "E","T","B"," ","B","o","x"," ","N","e","w"," ","U","K"," ","B","u",
        "y"," ","I","t"," ","N","o","w">> }

\* Embeds that carry a title only.
SpecQueries ==
    /\ Received({[title |-> t, description |-> None, author |-> None,
                  footer |-> None, fields |-> <<>>] : t \in QueryTitles})
    /\ [][Next]_vars

(***************************************************************************)
(* The evaluation on its own: on_message from the result of the scraper    *)
(* on, on samples built from a pool of sale prices                         *)
(***************************************************************************)

\* The most prices a sample carries.
MaxSample == 2

\* Sale prices between 6 and 61 pounds, in units of 1/10000 GBP.
EvalPrices == {60000, 100000, 100100, 300000, 300100, 310000, 600000, 600100, 610000}

\* sold_prices of the page scraped; <<>> when neither query gave a price.
EvalSamples == SeqsUpTo(EvalPrices, MaxSample)

EvalAlerts == {BoosterPack, MegaEvolutions, Untitled, Unpriced}

\* scrape_ebay_sold_prices_selenium has returned: the first query gave the
\* sample, or both queries gave nothing (with a name of None, both attempts
\* raised at get_exclusion_terms); each attempt created and quit a driver.
Scraped(queries, sample) ==
    /\ scrape_queries = queries
    /\ IF sample # <<>>
       THEN /\ si = 1
            /\ scrape_sent = <<queries[1]>>
            /\ scrape_replies = <<TRUE>>
            /\ page_status = "ok"
            /\ drivers = <<"quit">>
            /\ result = Summarise(sample, queries[1])
       ELSE /\ si = 2
            /\ scrape_sent = queries
            /\ scrape_replies = <<FALSE, FALSE>>
            /\ page_status = IF queries[2] = None THEN "load_error" ELSE "no_list"
            /\ drivers = <<"quit", "quit">>
            /\ result = NoResult

\* on_message at line 885, without an application id: info is what
\* extract_product_info gave for the embed.
Searched(info, sample) ==
    /\ product_name = info.product_name
    /\ buy_price = info.buy_price
    /\ price_location = info.location
    /\ info.product_name = None => sample = <<>>
    /\ Scraped(ScrapeQueries(info.product_name), sample)

InitEval ==
    /\ embed \in EvalAlerts
    /\ EBAY_APP_ID = FALSE
    /\ EXCHANGE_RATES = DefaultRates
    /\ pc = "final"
    /\ ping_title = clean_product_name(IF Truthy(embed.title) THEN embed.title
                                       ELSE UnknownProduct)
    /\ initial_embed = create_initial_embed(embed, DefaultRates)
    /\ search_queries = <<>>
    /\ qi = 0
    /\ api_sent = <<>>
    /\ api_replies = <<>>
    /\ last_status = ""
    /\ \E sample \in EvalSamples :
           Searched(extract_product_info(embed, DefaultRates), sample)
    /\ final_embed = NoEmbed
    /\ alert_status = ""

SpecEval == InitEval /\ [][FinalEmbed]_vars


(***************************************************************************)
(* on_message on an API that answers with sale prices of 10, 20 and 30     *)
(* pounds                                                                  *)
(***************************************************************************)

\* The bodies of the API: items at 10, 20 or 30 pounds, or without a price.
StatResponses ==
    {[status |-> "ok", items |-> i] :
        i \in SeqsUpTo({0, 100000, 200000, 300000}, MaxItems)}

NextStats ==
    \/ SendPing
    \/ InitialEmbed
    \/ StartSearch
    \/ \E response \in StatResponses : ApiResponse(response)
    \/ \E page \in ScrapePages : ScrapeResponse(page)
    \/ FinalEmbed

SpecStats == Received({BoosterPack}) /\ [][NextStats]_vars

(***************************************************************************)
(* fetch_exchange_rates, called by on_ready, while an alert is processed   *)
(*                                                                         *)
(* A response is [status, usd, eur]: "no_key" is a call without an API     *)
(* key, "timeout" an exception of session.get, "http_error" a status other *)
(* than 200, "error_result" a body whose result is not 'success', "ok" a   *)
(* body with conversion_rates; usd and eur are the rates of the body, in   *)
(* hundredths of the foreign currency per GBP.                             *)
(***************************************************************************)

\* rates.get(c) is falsy: the key is absent, or its value is None or 0.
MissingRate == 0

\* rates.get(c) is truthy and no number: 1 / rates.get(c) raises.
MalformedRate == -1

\* 1 / rate, in hundredths of GBP per unit
Invert(rate) == 10000 \div rate

\* The responses: rates of 1.25 and 2.00 per GBP, missing and malformed.
RateResponses ==
    {[status |-> s, usd |-> MissingRate, eur |-> MissingRate] :
        s \in {"no_key", "timeout", "http_error", "error_result"}}
    \cup {[status |-> "ok", usd |-> u, eur |-> e] :
             u \in {MissingRate, MalformedRate, 125, 200},
             e \in {MissingRate, MalformedRate, 125, 200}}

\* EXCHANGE_RATES after lines 80-82 on the rates of a body: the entries are
\* assigned one after the other, and a malformed rate raises at its
\* assignment, into the handler of line 88.
AssignedRates(table, usd, eur) ==
    IF usd = MalformedRate THEN table
    ELSE IF eur = MalformedRate
    THEN [table EXCEPT !.USD = IF usd = MissingRate THEN 79 ELSE Invert(usd)]
    ELSE [USD |-> IF usd = MissingRate THEN 79 ELSE Invert(usd),
          EUR |-> IF eur = MissingRate THEN 86 ELSE Invert(eur),
          GBP |-> 100]

\* fetch_exchange_rates from the response on: the lines after the last
\* await run without interruption.
fetch_exchange_rates(response) ==
    /\ EXCHANGE_RATES' = IF response.status = "ok"
                         THEN AssignedRates(EXCHANGE_RATES, response.usd,
                                            response.eur)
                         ELSE EXCHANGE_RATES
    /\ UNCHANGED <<embed, EBAY_APP_ID, pc, ping_title, initial_embed, product_name,
                   buy_price, price_location, search_queries, qi, api_sent,
                   api_replies, last_status, scrape_queries, si, scrape_sent,
                   scrape_replies, page_status, result, final_embed,
                   alert_status,
                   drivers>>

\* on_message on one embed, and on_ready fetching the rates at any time.
NextRates ==
    \/ Next
    \/ \E response \in RateResponses : fetch_exchange_rates(response)

SpecRates == Received({Untitled, BoosterPack}) /\ [][NextRates]_vars

(***************************************************************************)
(* Properties of the pipeline                                              *)
(***************************************************************************)

\* The variants the loop of get_ebay_sold_prices_api does not skip.
NonBlank(queries) == SelectSeq(queries, LAMBDA q : Strip(q) # <<>>)

\* The queries of the requests sent to the API, in order.
SentQueries == [n \in 1..Len(api_sent) |-> api_sent[n].query]

\* A request to the API was answered with a price above 0.
ApiSample == \E n \in 1..Len(api_replies) : api_replies[n]

\* A scraped page carried a price in range.
ScrapeSample == \E n \in 1..Len(scrape_replies) : scrape_replies[n]

\* C1: once a variant sent to the API is answered with at least one positive
\* sale price, no later variant is sent, the scraper is never invoked, and
\* query_used of the summary is that variant.
C1_ShortCircuit ==
    \A n \in 1..Len(api_replies) :
        api_replies[n] =>
            /\ Len(api_sent) = n
            /\ scrape_sent = <<>>
            /\ result.ebay_data # NoSummary
            /\ result.ebay_data.query_used = api_sent[n].query

\* The second of four variants is answered with prices and the alert is
\* finished.
C1_SecondVariantAnswers ==
    /\ pc = "done"
    /\ Len(api_replies) = 2 /\ api_replies[2]
    /\ Len(search_queries) = 4
    /\ Len(api_sent) = 2

\* C2: the scraper is queried only after every variant of the API search
\* has been passed (the non-blank ones sent and answered) without a sample,
\* or without an application id, and then it always is; the result is
\* (None, None, 0) exactly when no query of either source gave a sample.
C2_FallbackOrdering ==
    /\ scrape_sent # <<>> =>
           \/ ~EBAY_APP_ID
           \/ /\ SentQueries = NonBlank(search_queries)
              /\ Len(api_replies) = Len(api_sent)
              /\ ~ApiSample
    /\ (pc \in {"scrape", "final", "done"} /\ ~ApiSample) => scrape_sent # <<>>
    /\ pc \in {"final", "done"} =>
           (result = NoResult <=> (~ApiSample /\ ~ScrapeSample))

\* Every variant failed, the scraper was tried twice and its second query
\* gave the sample.
C2_FallbackGivesSample ==
    /\ pc = "done"
    /\ EBAY_APP_ID
    /\ Len(api_sent) >= 3
    /\ Len(scrape_sent) = 2
    /\ result # NoResult

\* C3: the final status is NO SALES DATA exactly when neither source gave a
\* sample; with a summary the status is one of the four profit tiers; and a
\* summary never has count 0.
C3_NoDataNotConflated ==
    /\ result.ebay_data # NoSummary =>
           /\ result.ebay_data.count >= 1
           /\ result.ebay_data.count = Len(result.ebay_data.prices)
           /\ result.sold_count = result.ebay_data.count
    /\ pc = "done" =>
           /\ (alert_status = "NO SALES DATA - RESEARCH REQUIRED")
                  <=> (~ApiSample /\ ~ScrapeSample)
           /\ result.ebay_data # NoSummary =>
                  alert_status \in {"HIGH PROFIT DEAL", "PROFITABLE DEAL",
                                    "DEAL DETECTED", "LOW/NO PROFIT"}

\* Sales were found and show no profit.
C3_DataShowsNoProfit ==
    /\ pc = "done"
    /\ result.ebay_data # NoSummary
    /\ alert_status = "LOW/NO PROFIT"

\* C4: an alert in which extract_product_info finds no price never ends in
\* a profit status, nor with a profit, computed from a price of 0.
C4_MissingPriceNotZero ==
    (pc = "done" /\ buy_price = NoPrice) =>
        /\ alert_status \notin {"HIGH PROFIT DEAL", "PROFITABLE DEAL", "DEAL DETECTED"}
        /\ final_embed.profit = 0

\* C5, the API: a request that times out, raises, is answered with another
\* status than 200, with an ack of Failure or with a malformed body is
\* followed by the request for the next variant that is not blank, in
\* order, or by the scraper when there is none; on_message is not abandoned.
C5_ApiFailureStep ==
    (/\ pc = "api"
     /\ api_replies' # api_replies
     /\ last_status' \in {"timeout", "error", "http_error", "failure", "malformed"})
    => /\ pc' # "failed"
       /\ result' = NoResult
       /\ IF \E k \in (qi + 1)..Len(search_queries) : Strip(search_queries[k]) # <<>>
          THEN /\ pc' = "api"
               /\ qi' > qi
               /\ Strip(search_queries[qi']) # <<>>
               /\ \A j \in (qi + 1)..(qi' - 1) : Strip(search_queries[j]) = <<>>
               /\ Len(api_sent') = Len(api_sent) + 1
               /\ api_sent'[Len(api_sent')].query = search_queries[qi']
               /\ scrape_sent' = <<>>
          ELSE /\ pc' = "scrape"
               /\ Len(scrape_sent') = 1

\* C5, the scraper: an exception inside one attempt gives no result for the
\* query, and the next query is tried; after the last one the result is
\* (None, None, 0).
C5_ScrapeFailureStep ==
    (/\ pc = "scrape"
     /\ scrape_replies' # scrape_replies
     /\ page_status' \in {"driver_error", "load_error"})
    => IF si < Len(scrape_queries)
       THEN /\ pc' = "scrape"
            /\ si' = si + 1
            /\ scrape_sent' = Append(scrape_sent, scrape_queries[si + 1])
            /\ result' = result
       ELSE /\ pc' = "final"
            /\ result' = NoResult

\* C5: a failure of a provider is recovered at the query: every step that
\* handles a failed request or a failed scraping attempt goes on to the next
\* query, then to the next source, and on_message is not abandoned.
C5_FailureRecovered == [][C5_ApiFailureStep /\ C5_ScrapeFailureStep]_vars

\* Four requests failed, the last by a timeout, then both scraping attempts
\* raised, and the alert was still finished.
C5_AllFailedAndFinished ==
    /\ pc = "done"
    /\ Len(api_sent) = 4
    /\ last_status = "timeout"
    /\ Len(scrape_sent) = 2
    /\ page_status = "driver_error"

\* The name the title of MegaEvolutions cleans to.
MegaName ==
    <<"P","o","k","eacute","m","o","n"," ","M","e","g","a"," ","E","v","o","l","u",
      "t","i","o","n","s"," ","B","o","o","s","t","e","r"," ","B","o","x">>

\* The scenario of C8 up to the verdict: the cleaned name, the price of
\* 45.00 GBP, the first query in quotes with no exclusion suffix.
C8_Extraction ==
    /\ pc # "ping" => ping_title = MegaName
    /\ pc \notin {"ping", "initial", "search"} =>
           /\ product_name = MegaName
           /\ buy_price = 450000
    /\ api_sent # <<>> =>
           /\ api_sent[1].query = <<"\"">> \o MegaName \o <<"\"">>
           /\ api_sent[1].keywords = <<"\"">> \o MegaName \o <<"\"">>

\* The API answers the first query with the prices 60, 65, 70.
C8_Answered ==
    /\ pc = "done"
    /\ Len(api_sent) = 1
    /\ result.ebay_data # NoSummary
    /\ result.ebay_data.prices = <<600000, 650000, 700000>>

\* C8, as the code has it: for the Mega Evolutions payload the name, the
\* price and the first query are as stated, and with sale prices 60, 65, 70
\* the profit is 20 pounds (the median 65 less 45), the tier SmallProfit.
C8_Scenario ==
    embed = MegaEvolutions =>
        /\ C8_Extraction
        /\ C8_Answered => /\ final_embed.profit = 200000
                          /\ alert_status = "DEAL DETECTED"

\* C8 as stated: the same with a profit of 15 pounds.
C8_AsStated ==
    embed = MegaEvolutions =>
        /\ C8_Extraction
        /\ C8_Answered => /\ final_embed.profit = 150000
                          /\ alert_status = "DEAL DETECTED"

\* The Mega Evolutions alert, finished on the prices 60, 65, 70.
C8_MegaAnswered == embed = MegaEvolutions /\ C8_Answered

(***************************************************************************)
(* Properties of the evaluation                                            *)
(***************************************************************************)

\* C6: with an observed purchase price p > 0 and a summary of median m, the
\* status is HIGH PROFIT iff m - p > 50, PROFITABLE iff 20 < m - p <= 50,
\* DEAL DETECTED iff 0 < m - p <= 20, LOW/NO PROFIT iff m - p <= 0; without
\* a summary it is NO SALES DATA whatever the price.  With p = 10, the
\* medians 61, 31, 10.01 and 10 give the four tiers in this order.
C6_TierBoundaries ==
    pc = "done" =>
        /\ result.ebay_data = NoSummary =>
               alert_status = "NO SALES DATA - RESEARCH REQUIRED"
        /\ (result.ebay_data # NoSummary /\ buy_price > 0) =>
               LET profit == result.ebay_data.median - buy_price
               IN /\ alert_status = "HIGH PROFIT DEAL" <=> profit > 500000
                  /\ alert_status = "PROFITABLE DEAL"
                         <=> (200000 < profit /\ profit <= 500000)
                  /\ alert_status = "DEAL DETECTED"
                         <=> (0 < profit /\ profit <= 200000)
                  /\ alert_status = "LOW/NO PROFIT" <=> profit <= 0
        /\ (result.ebay_data # NoSummary /\ buy_price = 100000) =>
               /\ result.ebay_data.median = 610000 => alert_status = "HIGH PROFIT DEAL"
               /\ result.ebay_data.median = 310000 => alert_status = "PROFITABLE DEAL"
               /\ result.ebay_data.median = 100100 => alert_status = "DEAL DETECTED"
               /\ result.ebay_data.median = 100000 => alert_status = "LOW/NO PROFIT"

\* A purchase at 10 pounds and a median of 10.01: a profit of one penny.
C6_PennyProfit ==
    /\ pc = "done"
    /\ buy_price = 100000
    /\ result.ebay_data # NoSummary
    /\ result.ebay_data.median = 100100
    /\ alert_status = "DEAL DETECTED"

\* The profit percentage p stands for profit / purchase * 100, or for 0
\* when the purchase price is 0.
PercentIs(p, profit, purchase) ==
    IF purchase > 0 THEN p = [num |-> profit * 100, den |-> purchase]
    ELSE p.num = 0

\* The purchase price the evaluation works with: 0 when none was found.
PurchaseOf(price) == IF price = NoPrice THEN 0 ELSE price

\* C7, as the code has it: with a summary whose median is at most the
\* purchase price the tier is LOW/NO PROFIT and the profit and the profit
\* percentage are 0, never negative; with a higher median the profit is
\* the difference and the percentage is profit / purchase * 100, or 0 when
\* the purchase price is 0.
C7_LossReportedAsZero ==
    (pc = "done" /\ result.ebay_data # NoSummary) =>
        /\ result.ebay_data.median <= PurchaseOf(buy_price) =>
               /\ alert_status = "LOW/NO PROFIT"
               /\ final_embed.profit = 0
               /\ final_embed.profit_percent.num = 0
        /\ result.ebay_data.median > PurchaseOf(buy_price) =>
               /\ final_embed.profit = result.ebay_data.median - PurchaseOf(buy_price)
               /\ PercentIs(final_embed.profit_percent, final_embed.profit,
                            PurchaseOf(buy_price))

\* C7 as stated: with a median at most the purchase price the profit is the
\* (negative) difference and the percentage follows it.
C7_AsStated ==
    (/\ pc = "done"
     /\ result.ebay_data # NoSummary
     /\ result.ebay_data.median <= PurchaseOf(buy_price)) =>
        /\ alert_status = "LOW/NO PROFIT"
        /\ final_embed.profit = result.ebay_data.median - PurchaseOf(buy_price)
        /\ PercentIs(final_embed.profit_percent, final_embed.profit,
                     PurchaseOf(buy_price))

\* A sale below the purchase price, evaluated.
C7_LossEvaluated ==
    /\ pc = "done"
    /\ result.ebay_data # NoSummary
    /\ buy_price # NoPrice
    /\ result.ebay_data.median < buy_price
    /\ final_embed.profit = 0

(***************************************************************************)
(* Properties of the price extraction                                      *)
(***************************************************************************)

\* extract_product_info has returned.
Extracted == pc \notin {"ping", "initial", "search"}

\* The text holds "notice" or "resell", in any case.
Derived(text) ==
    \/ Contains(Lower(text), <<"n","o","t","i","c","e">>)
    \/ Contains(Lower(text), <<"r","e","s","e","l","l">>)

\* C9: the purchase price never comes from a fragment whose label or
\* content holds "notice" or "resell": not from the value of a field whose
\* name or value holds one of them, not from such a title.
C9_DerivedNeverCandidate ==
    (Extracted /\ buy_price # NoPrice) =>
        /\ price_location = <<"t","i","t","l","e">> => ~Derived(embed.title)
        /\ \A i \in 1..Len(embed.fields) :
               price_location = ValueLocation(IntStr(i - 1)) =>
                   /\ ~Derived(embed.fields[i].name)
                   /\ ~Derived(embed.fields[i].value)

\* The values of the fields whose name holds "price", from field i on, in
\* the order of the fields.
RECURSIVE PriceValues(_, _)
PriceValues(fields, i) ==
    IF i > Len(fields) THEN <<>>
    ELSE (IF Contains(Lower(fields[i].name), <<"p","r","i","c","e">>)
          THEN <<[location |-> ValueLocation(IntStr(i - 1)),
                  text |-> fields[i].value]>>
          ELSE <<>>)
         \o PriceValues(fields, i + 1)

\* The order C10 states: every value of a price field, then the other
\* fragments in the order of all_text.
StatedOrder(first, all_text) ==
    first \o SelectSeq(all_text,
                       LAMBDA item : \A k \in 1..Len(first) : item # first[k])

\* The price of the first fragment of the order that yields one.
FirstAccepted(order, rates) ==
    LET hits == {k \in 1..Len(order) : TurnPrice(order[k], rates) \notin {NoPrice, 0}}
    IN IF hits = {} THEN NoPrice
       ELSE TurnPrice(order[CHOOSE k \in hits : \A j \in hits : k <= j], rates)

\* C10: the values of all the fields whose name holds "price" are searched
\* before every other fragment, and the price returned is the one of the
\* first fragment, in that order, that yields an amount in range.
C10_PriceFieldsFirst ==
    Extracted =>
        buy_price = FirstAccepted(StatedOrder(PriceValues(embed.fields, 1),
                                              AllText(embed)),
                                  EXCHANGE_RATES)

\* The quote a field value was built from.
QuoteOf(value) == CHOOSE q \in BoundaryQuotes : q.value = value

\* The amount a quote converts to, in units of 1/10000 GBP.
QuoteInGBP(q) ==
    IF q.currency = "GBP" THEN q.pence * 100 ELSE q.pence * EXCHANGE_RATES[q.currency]

\* The price of the first field, in order, whose amount is at least least
\* and below 100000 (10000000 pence); NoPrice if there is none.
FirstQuoteFrom(fields, least) ==
    LET ok == SelectSeq(fields, LAMBDA f : /\ least <= QuoteOf(f.value).pence
                                          /\ QuoteOf(f.value).pence < 10000000)
    IN IF ok = <<>> THEN NoPrice ELSE QuoteInGBP(QuoteOf(ok[1].value))

\* C11, as the code has it: a matched amount a is accepted exactly when
\* 0.1 <= a < 100000, in both sub-formats: an amount of exactly 0.1 is
\* accepted, one of exactly 100000 is rejected, and the purchase price is
\* the first quoted amount, before conversion, in [0.1, 100000).
C11_ClosedAtMinimum ==
    Extracted => buy_price = FirstQuoteFrom(embed.fields, 10)

\* C11 as stated: an amount is accepted only if 0.1 < a < 100000, so that
\* one of exactly 0.1 is rejected (11 pence is the least amount accepted).
C11_OpenInterval ==
    Extracted => buy_price = FirstQuoteFrom(embed.fields, 11)

\* A field at 100000 pounds is passed over and the next, at 0.10 GBP, gives
\* the purchase price of 0.1 pounds.
C11_MinimumAccepted ==
    /\ Extracted
    /\ Len(embed.fields) = 2
    /\ QuoteOf(embed.fields[1].value).pence = 10000000
    /\ QuoteOf(embed.fields[2].value).pence = 10
    /\ buy_price = 1000

(***************************************************************************)
(* Properties of the queries                                               *)
(***************************************************************************)

\* s.endswith(suffix)
EndsWith(s, suffix) ==
    /\ Len(suffix) <= Len(s)
    /\ SubSeq(s, Len(s) - Len(suffix) + 1, Len(s)) = suffix

\* The name holds the phrase, in any case.
Names(name, phrase) == Contains(Lower(name), phrase)

\* C12: for a product name holding "Booster Pack" every request sent
\* carries the exclusion suffix; for a name holding "Booster Box" or
\* another multi-item keyword, and for a name holding no keyword at all, no
\* request carries it, whatever else the name holds.
C12_SingleItemExclusion ==
    \A n \in 1..Len(api_sent) :
        /\ Names(product_name, <<"b","o","o","s","t","e","r"," ","p","a","c","k">>)
               => EndsWith(api_sent[n].keywords, ExclusionSuffix)
        /\ (\/ Names(product_name, <<"b","o","o","s","t","e","r"," ","b","o","x">>)
            \/ AnyKeywordIn(multipack_keywords, Lower(product_name))
            \/ ~AnyKeywordIn(single_item_keywords, Lower(product_name)))
               => ~EndsWith(api_sent[n].keywords, ExclusionSuffix)

\* C13: the variants built for a product name hold no two entries that are
\* equal ignoring case and no empty string, and no query text is sent to
\* the API twice for one alert.
C13_NoDuplicateNoEmpty ==
    /\ \A i, j \in 1..Len(search_queries) :
           i # j => Lower(search_queries[i]) # Lower(search_queries[j])
    /\ \A i \in 1..Len(search_queries) : search_queries[i] # <<>>
    /\ \A m, n \in 1..Len(api_sent) :
           m # n => api_sent[m].query # api_sent[n].query

\* The smaller of two numbers.
Least(a, b) == IF a <= b THEN a ELSE b

\* The list C14 states for a name of the given words.
StatedVariants(words) ==
    << Quoted(Join(Take(words, Least(Len(words), 8)))),
       Join(Take(words, Least(Len(words), 10))) >>
    \o (IF Len(words) >= 6 THEN <<Join(Take(words, 6))>> ELSE <<>>)
    \o (IF Len(words) >= 3 THEN <<Join(Take(words, Len(words) - 1))>> ELSE <<>>)

\* C14: the variants are the list stated, and they run from the most to the
\* least specific: no unquoted variant holds more words of the name than an
\* unquoted variant before it.
C14_SpecificToBroad ==
    search_queries # <<>> =>
        /\ search_queries = StatedVariants(Split(product_name))
        /\ \A i, j \in 2..Len(search_queries) :
               i < j => Len(Split(search_queries[j])) <= Len(Split(search_queries[i]))

\* C15: the product name used downstream is never empty: the titles of the
\* placeholder and of the final embed, and the name the searches are built
\* from, are not empty, the latter being "Unknown Product" whenever the
\* payload has no title or its title cleans to nothing; and the normaliser
\* returns the empty string only for an empty or absent input (the name in
\* the ping is what it returns for the title).
C15_NameNeverEmpty ==
    /\ initial_embed # NoEmbed => Truthy(initial_embed.title)
    /\ pc = "done" => Truthy(final_embed.title)
    /\ Extracted =>
           /\ Truthy(product_name)
           /\ (~Truthy(embed.title) \/ clean_product_name(embed.title) = <<>>)
                  => product_name = UnknownProduct
    /\ (pc # "ping" /\ ping_title = <<>>) => embed.title = <<>>

\* The payload yields no product name, or no price.
ExtractionAbsent ==
    \/ ~Truthy(embed.title)
    \/ Extracted /\ buy_price = NoPrice

\* C16: for an alert whose payload yields no product name or no price no
\* stage raises: on_message never ends in its exception handler, which
\* would leave the alert at the placeholder for good.
C16_AbsenceNotException == ExtractionAbsent => pc # "failed"

(***************************************************************************)
(* Properties of the rate table                                            *)
(***************************************************************************)

\* The table holds the three rates of one response, all of them present
\* and well-formed.
FromOneResponse(table) ==
    \E r \in RateResponses :
        /\ r.status = "ok"
        /\ r.usd \notin {MissingRate, MalformedRate}
        /\ r.eur \notin {MissingRate, MalformedRate}
        /\ table = [USD |-> Invert(r.usd), EUR |-> Invert(r.eur), GBP |-> 100]

\* C17: every call of fetch_exchange_rates either replaces the USD, EUR and
\* GBP entries together by the values of one response or, on any failure,
\* leaves the table as it was; so the table an extraction reads is never a
\* mix of two.
C17_AllOrNothing ==
    [][EXCHANGE_RATES' # EXCHANGE_RATES => FromOneResponse(EXCHANGE_RATES')]_vars

(***************************************************************************)
(* Properties of the scraper's driver                                      *)
(***************************************************************************)

\* C18: a call of _scrape_ebay_sync creates at most one driver, and on
\* every exit path the driver it created is quit when the call returns: a
\* step of the scraper adds at most one driver, no driver is open between
\* two calls or after the alert is finished, and there are never more
\* drivers than calls.
C18_DriverScoped ==
    /\ \A n \in 1..Len(drivers) : drivers[n] = "quit"
    /\ Len(drivers) <= Len(scrape_replies)
    /\ Len(scrape_replies) = Len(scrape_sent) - (IF pc = "scrape" THEN 1 ELSE 0)

\* Both attempts got a driver and the second raised while loading: the
\* alert is finished and both drivers are quit.
C18_QuitAfterException ==
    /\ pc = "done"
    /\ page_status = "load_error"
    /\ product_name # None
    /\ drivers = <<"quit", "quit">>

(***************************************************************************)
(* Properties of the summary                                               *)
(***************************************************************************)

\* How many of the prices are at most m, and at least m.
AtMost(prices, m) == Cardinality({i \in 1..Len(prices) : prices[i] <= m})

AtLeast(prices, m) == Cardinality({i \in 1..Len(prices) : prices[i] >= m})

\* The sum of the first n prices.
RECURSIVE Total(_, _)
Total(prices, n) == IF n = 0 THEN 0 ELSE Total(prices, n - 1) + prices[n]

\* m is the median: the middle value of an odd count, the average of the
\* two middle values of an even count.
IsMedian(prices, m) ==
    LET n == Len(prices)
    IN IF n % 2 = 1
       THEN /\ \E i \in 1..n : prices[i] = m
            /\ 2 * AtMost(prices, m) >= n + 1
            /\ 2 * AtLeast(prices, m) >= n + 1
       ELSE \E i, j \in 1..n :
                /\ 2 * m = prices[i] + prices[j]
                /\ 2 * AtMost(prices, prices[i]) >= n
                /\ 2 * AtLeast(prices, prices[i]) >= n + 2
                /\ 2 * AtMost(prices, prices[j]) >= n + 2
                /\ 2 * AtLeast(prices, prices[j]) >= n

\* C19: a summary is over the prices accepted, which are not empty: count
\* is their number, min and max the smallest and the largest, average
\* their sum over their number, median the middle value or the average of
\* the two middle values, so that both lie between min and max; the prices
\* 10, 20, 30 give a mean and a median of 20, the prices 10, 20 a median
\* of 15.
C19_StandardStatistics ==
    result.ebay_data # NoSummary =>
        LET d == result.ebay_data
            n == Len(d.prices)
        IN /\ n >= 1
           /\ d.count = n
           /\ result.sold_count = n
           /\ \A i \in 1..n : d.prices[i] > 0
           /\ \E i \in 1..n : d.min = d.prices[i]
           /\ \E i \in 1..n : d.max = d.prices[i]
           /\ \A i \in 1..n : d.min <= d.prices[i] /\ d.prices[i] <= d.max
           /\ d.average.den = n
           /\ d.average.num = Total(d.prices, n)
           /\ d.min * n <= d.average.num /\ d.average.num <= d.max * n
           /\ IsMedian(d.prices, d.median)
           /\ result.resell_price = d.median
           /\ d.min <= d.median /\ d.median <= d.max
           /\ d.prices = <<100000, 200000, 300000>> =>
                  /\ d.average.num = 200000 * d.average.den
                  /\ d.median = 200000
           /\ d.prices = <<100000, 200000>> => d.median = 150000

\* The API answered with the prices 10 and 20, after an item without a
\* price: the median is 15.
C19_EvenCount ==
    /\ pc = "done"
    /\ api_sent # <<>>
    /\ result.ebay_data # NoSummary
    /\ result.ebay_data.prices = <<100000, 200000>>
    /\ result.ebay_data.median = 150000

(***************************************************************************)
(* Properties of the scraper's queries                                     *)
(***************************************************************************)

\* C20, as stated: the two queries of the scraper are the first two of the
\* variants of the API, whatever the length of the name.
C20_FirstTwoVariants ==
    (search_queries # <<>> /\ scrape_queries # <<>>) =>
        scrape_queries = Take(search_queries, 2)

\* C20: the two queries of the scraper are the whole cleaned name, in
\* quotes and then without, whatever its length.  For a name of at most 8
\* words they are the first two variants of the API; for a longer name the
\* first variant of the API is cut to 8 words and differs from the first
\* query of the scraper, and the second variant of the API is the second
\* query of the scraper exactly when the name has at most 10 words.
C20_WholeNameUncapped ==
    (search_queries # <<>> /\ scrape_queries # <<>>) =>
        LET cleaned == clean_product_name(product_name)
            words == Split(cleaned)
        IN /\ scrape_queries = <<Quoted(cleaned), cleaned>>
           /\ Len(words) <= 8 => scrape_queries = Take(search_queries, 2)
           /\ Len(words) > 8 =>
                  /\ search_queries[1] = Quoted(Join(Take(words, 8)))
                  /\ scrape_queries[1] # search_queries[1]
           /\ Len(words) > 10 =>
                  /\ search_queries[2] = Join(Take(words, 10))
                  /\ scrape_queries[2] # search_queries[2]
           /\ Len(words) <= 10 => scrape_queries[2] = search_queries[2]

\* Both searches ran for a name of more than 10 words, and the scraper was
\* handed both of its queries.
C20_LongNameScraped ==
    /\ pc = "done"
    /\ Len(Split(product_name)) > 10
    /\ Len(search_queries) = 4
    /\ Len(scrape_sent) = 2
    /\ scrape_sent = scrape_queries

(***************************************************************************)
(* Properties of the purchase price                                        *)
(***************************************************************************)

\* C21: the purchase price is the same throughout an alert: once the final
\* embed is built, the price in pounds it shows and takes the profit from
\* is the price the placeholder embed showed, whenever the rates were
\* fetched in between.
C21_PriceStable ==
    pc = "done" => final_embed.buy_price = initial_embed.buy_price

=============================================================================
